---- MODULE Spec2Model ----
(***************************************************************************)
(* A model of ydownloader's download coordinator:                          *)
(*   src/src/domain/download_service.py  DownloadService                   *)
(*   src/src/domain/models.py            Download, DownloadStatus          *)
(*   src/src/domain/validators.py        URLValidator                      *)
(*   src/src/domain/errors.py            DomainError and its subclasses    *)
(*   src/src/infra/ytdlp_adapter.py      YtdlpAdapter (the engine)         *)
(*   src/src/infra/history_store.py      HistoryStore                      *)
(*   src/src/ui/main_window.py           the sinks and the update queue    *)
(*                                                                         *)
(* Threads: the callers of start_download (one per invocation), a caller   *)
(* of cancel_download, one worker thread per accepted job, and the         *)
(* consumer that polls the update queue.  A step of the model is one       *)
(* statement of the code that reads or writes shared state (a field of a   *)
(* Download, the current-job slot, the adapter's fields, the queue); a     *)
(* `with self._lock:` block is one step, since the lock excludes every     *)
(* other block and no block waits inside.                                  *)
(*                                                                         *)
(* The specifications:                                                     *)
(*   Spec         the service driven by one calling thread, as in the unit *)
(*                tests and in MainWindow: a call of start_download or     *)
(*                cancel_download begins when the previous one has         *)
(*                returned; the workers run concurrently with the caller.  *)
(*                The sinks are passive recorders (the tests' mocks).      *)
(*   SpecUI       the service inside MainWindow: its sinks, update queue   *)
(*                and poll, and its button, which offers start or cancel   *)
(*                according to the window's own downloading flag.          *)
(*   SpecObserve  Spec with a thread that calls get_current_download.      *)
(*   SpecStreams  Spec with a download of two streams (one more hook).     *)
(*   SpecRecord   one Download whose methods a single thread calls, and a  *)
(*                second one constructed with an explicit progress.        *)
(*   SpecValidate URLValidator.validate called directly.                   *)
(*   SpecHistory  the methods of one HistoryStore called directly.         *)
(*   SpecFair     Spec with worker threads that are not starved.           *)
(*   SpecUIFair   SpecUI with a UI thread that keeps polling.              *)
(*   SpecOverlap  the service called from several threads: calls of        *)
(*                start_download and cancel_download overlap freely.       *)
(***************************************************************************)
EXTENDS Integers, Sequences, FiniteSets, TLC

(***************************************************************************)
(* Bounds of the model.                                                    *)
(***************************************************************************)
MaxCalls == 2      \* invocations of start_download (job ids are 1..MaxCalls)
MaxHooks == 1      \* progress-hook calls yt-dlp makes during one run
MaxCancels == 1    \* invocations of cancel_download
MaxQueue == 2      \* events waiting in the consumer's update queue
MaxGets == 1       \* invocations of get_current_download
MaxMarks == 2      \* mark_* calls made on one record directly
MaxValidations == 2  \* direct calls of URLValidator.validate
MaxAdds == 6         \* direct calls of HistoryStore.add
MaxClears == 1       \* direct calls of HistoryStore.clear

Calls == 1 .. MaxCalls
NoJob == 0                     \* None in the current-job slot; also an id no job has
None == "None"                 \* Python's None for optional strings

(***************************************************************************)
(* models.py: DownloadStatus and Download.                                 *)
(***************************************************************************)
PENDING == "pending"
CONNECTING == "connecting"
DOWNLOADING == "downloading"
PROCESSING == "processing"
COMPLETED == "completed"
CANCELLED == "cancelled"
ERROR == "error"

ActiveStatuses == {PENDING, CONNECTING, DOWNLOADING, PROCESSING}
TerminalStatuses == {COMPLETED, CANCELLED, ERROR}

\* is_active without PENDING in its list.
is_active_started_only(d) == d.status \in {CONNECTING, DOWNLOADING, PROCESSING}
is_active(d) == d.status \in ActiveStatuses
is_terminal(d) == d.status \in TerminalStatuses

\* Paths: output_folder / "downloading", and the file a job's run produced.
Placeholder == <<"downloading", 0>>
NoPath == <<"None", 0>>
FileOf(j) == <<"file", j>>

\* Download(url=..., output_path=..., format=...): the dataclass defaults.
\* completed_at is None (0) or the ordinal of the datetime.now() stamp written
\* to this record: a second stamp is a later time than the first.
NewDownload(id, url, fmt) ==
    [id |-> id, url |-> url, format |-> fmt, output_path |-> Placeholder,
     status |-> PENDING, progress |-> 0, title |-> None,
     error_message |-> None, completed_at |-> 0]

\* A slot of the model that holds no Download object yet.
NoDownload ==
    [id |-> NoJob, url |-> None, format |-> None, output_path |-> NoPath,
     status |-> None, progress |-> 0, title |-> None,
     error_message |-> None, completed_at |-> 0]

Min(a, b) == IF a < b THEN a ELSE b
Max(a, b) == IF a > b THEN a ELSE b

\* update_progress storing the percentage as given.
NoClamp(percent) == percent
\* update_progress, statement by statement.
ClampPercent(percent) == Max(0, Min(100, percent))
SetProgress(d, percent) == [d EXCEPT !.progress = ClampPercent(percent)]
SetStatus(d, status) == [d EXCEPT !.status = status]
\* An update that stores whatever title it is given.
SetTitleAlways(d, title) == [d EXCEPT !.title = title]
\* `if title:` is false for None and for the empty string.
SetTitle(d, title) ==
    IF title # None /\ title # "" THEN [d EXCEPT !.title = title] ELSE d

\* mark_completed / mark_error / mark_cancelled, statement by statement.
MarkCompletedProgress(d) == [d EXCEPT !.progress = 100]
SetErrorMessage(d, message) == [d EXCEPT !.error_message = message]
StampCompletedAt(d) == [d EXCEPT !.completed_at = d.completed_at + 1]

(***************************************************************************)
(* errors.py: an exception is its class, its technical message (str(e))    *)
(* and its user_message attribute; NoAttr when the class has none.         *)
(***************************************************************************)
NoAttr == "<no attribute>"
DefaultDownloadUserMessage == "Error de conexion. Verifica tu conexion a internet e intenta de nuevo."

CancelledException ==
    [cls |-> "CancelledException", message |-> "Download cancelled by user",
     user_message |-> "Descarga cancelada."]
ContentUnavailableError ==
    [cls |-> "ContentUnavailableError", message |-> "Content unavailable at URL",
     user_message |-> "El contenido no esta disponible o fue eliminado."]
DownloadError(message, user_message) ==
    [cls |-> "DownloadError", message |-> message,
     user_message |-> IF user_message = None THEN DefaultDownloadUserMessage
                      ELSE user_message]
\* `import yt_dlp` fails: a builtin exception, without user_message.
ImportError ==
    [cls |-> "ImportError", message |-> "No module named yt_dlp",
     user_message |-> NoAttr]
\* HistoryStore.add fails (load() lets OSError and AttributeError through).
HistoryFailure ==
    [cls |-> "OSError", message |-> "history file unreadable",
     user_message |-> NoAttr]
NoException == [cls |-> None, message |-> None, user_message |-> NoAttr]

\* The handler storing str(e) for every exception.
RawMessageOf(e) == e.message
\* _execute_download's `except Exception` handler: the message it stores.
ErrorMessageOf(e) ==
    IF e.user_message # NoAttr THEN e.user_message ELSE e.message

(***************************************************************************)
(* validators.py: URLValidator.validate on a finite set of inputs.         *)
(* strip() and urlparse() are tables over these inputs.                    *)
(***************************************************************************)
URLs == {"", "  ", "ftp://x.com", "https:///a", "https://x.com/a"}

Strip(url) == IF url = "  " THEN "" ELSE url
UrlScheme(url) ==
    CASE url = "ftp://x.com" -> "ftp"
      [] url \in {"https:///a", "https://x.com/a"} -> "https"
      [] OTHER -> ""
UrlNetloc(url) ==
    CASE url \in {"ftp://x.com", "https://x.com/a"} -> "x.com"
      [] OTHER -> ""
ALLOWED_SCHEMES == {"http", "https"}

\* What the yt-dlp extractor registry does for one query.
RegistryAnswers == {"suitable", "none_suitable", "import_error", "error"}
\* A registry lookup that treats every failure as "not supported".
is_site_supported_strict(answer) == answer = "suitable"
is_site_supported(answer) == answer # "none_suitable"

MsgEmpty == "Por favor ingresa una URL."
MsgInvalid == "La URL ingresada no es valida. Por favor verifica e intenta de nuevo."
MsgUnsupported == "Este sitio no esta soportado actualmente."
MsgBusy == "Ya hay una descarga en progreso. Cancela la actual para iniciar otra."
MsgPermission == "No tienes permiso para guardar archivos en esta carpeta. Por favor selecciona otra carpeta."

ValidationResult(ok, message, code) ==
    [is_valid |-> ok, error_message |-> message, error_code |-> code]

\* A validator without the scheme test.
validate_any_scheme(url, answer) ==
    IF url = "" \/ Strip(url) = ""
    THEN ValidationResult(FALSE, MsgEmpty, "EMPTY_URL")
    ELSE IF UrlNetloc(Strip(url)) = ""
    THEN ValidationResult(FALSE, MsgInvalid, "INVALID_FORMAT")
    ELSE IF ~is_site_supported(answer)
    THEN ValidationResult(FALSE, MsgUnsupported, "UNSUPPORTED_SITE")
    ELSE ValidationResult(TRUE, "", "")
validate(url, answer) ==
    IF url = "" \/ Strip(url) = ""
    THEN ValidationResult(FALSE, MsgEmpty, "EMPTY_URL")
    ELSE IF UrlScheme(Strip(url)) \notin ALLOWED_SCHEMES
    THEN ValidationResult(FALSE, MsgInvalid, "INVALID_FORMAT")
    ELSE IF UrlNetloc(Strip(url)) = ""
    THEN ValidationResult(FALSE, MsgInvalid, "INVALID_FORMAT")
    ELSE IF ~is_site_supported(answer)
    THEN ValidationResult(FALSE, MsgUnsupported, "UNSUPPORTED_SITE")
    ELSE ValidationResult(TRUE, "", "")

(***************************************************************************)
(* State.                                                                  *)
(***************************************************************************)
VARIABLES
    current,           \* DownloadService._current_download: a job id or NoJob
    downloads,         \* the Download objects, by job id (= the call that made it)
    history_store,     \* DownloadService._history_store is configured
    cancel_event,      \* YtdlpAdapter._cancel_event
    current_filename,  \* YtdlpAdapter._current_filename: NoJob or the job whose file it names
    call,              \* each start_download invocation: position, arguments, result
    worker,            \* each worker thread: position and locals of _execute_download
    canceller,         \* the cancel_download caller: position, argument, result
    sinks,             \* what the sinks are: "recording" (mocks) or "window" (MainWindow)
    validations,       \* the calls made to URLValidator.validate directly, with their results
    history,           \* the HistoryStore: its _entries cache and its file on disk
    queue,             \* MainWindow._update_queue
    seen,              \* per job, what the consumer has applied of its events (history)
    sunk,              \* per call, what its three sinks have been called with (history)
    track,             \* per job, what the engine and cancel_download did (history)
    window,            \* MainWindow: the button's _is_downloading, _current_download
    observer           \* the get_current_download caller: calls made, object returned

vars == <<current, downloads, history_store, cancel_event, current_filename,
          call, worker, canceller, sinks, validations, history, queue, seen, sunk, track, window, observer>>

Formats == {"video"}

IdleCall == [pc |-> "idle", url |-> None, format |-> None, ret |-> None]
NoInfo == [percent |-> 0, status |-> None, title |-> None, k |-> 0]
IdleWorker ==
    [pc |-> "idle", hooks |-> 0, reports |-> 0, info |-> NoInfo, back |-> None,
     exc |-> NoException, path |-> NoPath]
NoTrack ==
    [outcome |-> None, failure |-> NoException, cancel_true |-> FALSE,
     hook_after_cancel |-> FALSE, history_adds |-> 0,
     method |-> None, percent_arg |-> 0,    \* the last method called on the record directly
     title_arg |-> None]                    \* and the title it was given
\* The sinks of one call: how often on_complete and on_error were called, the
\* last on_error message, the engine ordinal k of the last on_progress of the
\* run (-1: none; k = 0 is the service's own CONNECTING event) and the percent
\* it was called with, whether an on_progress came after on_complete/on_error,
\* or out of the engine's order.
NothingSunk ==
    [last_k |-> -1, percent |-> 0, complete |-> 0, error |-> 0, msg |-> None,
     late |-> FALSE, out_of_order |-> FALSE]
\* The consumer's view of one job's events, in the same terms.
NothingSeen == [last_k |-> -1, terminal |-> 0, late |-> FALSE, out_of_order |-> FALSE]

\* HistoryStore() before its first load: no cache (line 39), and a history
\* file without entries.  cached: _entries is not None.  n counts the adds,
\* clears the clears; last is the last method called.
NoHistory ==
    [cached |-> FALSE, entries |-> <<>>, file |-> <<>>, n |-> 0, clears |-> 0,
     last |-> None]

IdleCanceller ==
    [pc |-> "idle", arg |-> NoJob, n |-> 0, ret |-> None, engine_cancels |-> 0]

\* MainWindow's own state: DownloadButton._is_downloading (download_button.py
\* line 37) and MainWindow._current_download (line 59).
IdleWindow == [is_downloading |-> FALSE, current_download |-> NoJob]

\* The caller of get_current_download: the calls made and the object the
\* last one returned (a reference to a Download, or None).
NoObserver == [n |-> 0, ref |-> NoJob]

\* The service as MainWindow.__init__ (lines 47-57) and the fixture of the
\* unit tests build it: with a history store.
InitService ==
    /\ current = NoJob
    /\ downloads = [j \in Calls |-> NoDownload]
    /\ history_store = TRUE
    /\ validations = <<>>
    /\ history = NoHistory
    /\ cancel_event = FALSE
    /\ current_filename = NoJob
    /\ call = [c \in Calls |-> IdleCall]
    /\ worker = [j \in Calls |-> IdleWorker]
    /\ canceller = IdleCanceller
    /\ queue = <<>>
    /\ seen = [j \in Calls |-> NothingSeen]
    /\ sunk = [c \in Calls |-> NothingSunk]
    /\ track = [j \in Calls |-> NoTrack]
    /\ window = IdleWindow
    /\ observer = NoObserver

Init == InitService /\ sinks = "recording"

InitUI == InitService /\ sinks = "window"

(***************************************************************************)
(* main_window.py: the three sinks put one event each on the update queue. *)
(* job and n (the event's ordinal among the events of its job) are history *)
(* fields: the code's tuples carry no job identity.  The queue is          *)
(* unbounded; the model makes a worker wait while MaxQueue events are      *)
(* pending, and lets a put by the UI thread itself through.                *)
(***************************************************************************)
QueueHasRoom(c) ==
    \/ Len(queue) < MaxQueue
    \/ worker[c].pc = "idle"      \* the caller of start_download: the UI thread

\* A last in, first out queue (queue.LifoQueue).
EnqueueLifo(q, ev) == <<ev>> \o q
\* queue.Queue.put: first in, first out.
Enqueue(q, ev) == Append(q, ev)

\* The history of one more event of a job, at a sink or at the consumer.
Noted(s, type, k) ==
    IF type = "progress"
    THEN [s EXCEPT !.last_k = k,
                   !.late = @ \/ s.terminal > 0,
                   !.out_of_order = @ \/ k <= s.last_k]
    ELSE [s EXCEPT !.last_k = -1, !.terminal = @ + 1]

SinkCall(c, type, k, msg, percent) ==
    /\ sunk' = [sunk EXCEPT ![c] =
          CASE type = "progress" ->
                  [@ EXCEPT !.last_k = k, !.percent = percent,
                            !.late = @ \/ sunk[c].complete + sunk[c].error > 0,
                            !.out_of_order = @ \/ k <= sunk[c].last_k]
            [] type = "complete" ->
                  [@ EXCEPT !.last_k = -1, !.percent = 0, !.complete = @ + 1]
            [] OTHER ->
                  [@ EXCEPT !.last_k = -1, !.percent = 0, !.error = @ + 1, !.msg = msg]]
    /\ IF sinks = "window"
       THEN /\ QueueHasRoom(c)
            /\ queue' = Enqueue(queue, [job |-> c, type |-> type, k |-> k])
       ELSE UNCHANGED queue

on_progress(c, k, percent) == SinkCall(c, "progress", k, None, percent)
on_complete(c) == SinkCall(c, "complete", 0, None, 0)
on_error(c, msg) == SinkCall(c, "error", 0, msg, 0)

\* The calling thread is in no call of start_download or cancel_download.
CallerIdle ==
    /\ \A c \in Calls : call[c].pc \in {"idle", "returned"}
    /\ canceller.pc = "idle"

\* A poll whose _apply_update leaves the button as it is.
PollQueueKeepingState ==
    /\ CallerIdle
    /\ queue # <<>>
    /\ seen' = [seen EXCEPT ![Head(queue).job] =
                    Noted(@, Head(queue).type, Head(queue).k)]
    /\ queue' = Tail(queue)
    /\ UNCHANGED <<current, downloads, history_store, cancel_event, current_filename,
                   call, worker, canceller, sinks, validations, history, window,
                   observer, sunk, track>>
\* _poll_queue (lines 232-239): one get_nowait() and _apply_update (lines
\* 244-273) of the loop.
PollQueue ==
    /\ CallerIdle
    /\ queue # <<>>
    /\ seen' = [seen EXCEPT ![Head(queue).job] =
                    Noted(@, Head(queue).type, Head(queue).k)]
    /\ queue' = Tail(queue)
    /\ window' = IF Head(queue).type \in {"complete", "error"}    \* lines 254, 271
                 THEN [window EXCEPT !.is_downloading = FALSE]
                 ELSE window
    /\ UNCHANGED <<current, downloads, history_store, cancel_event, current_filename,
                   call, worker, canceller, sinks, validations, history, observer, sunk, track>>

(***************************************************************************)
(* download_service.py: start_download.                                    *)
(***************************************************************************)
Return(ret) == [pc |-> "returned", url |-> None, format |-> None, ret |-> ret]

\* An admission test that looks at the slot only.
SlotOccupied == current # NoJob
\* line 117: the admission test of the first locked block.
AlreadyInProgress == current # NoJob /\ is_active(downloads[current])

\* lines 115-119: the first `with self._lock:` block.  Calls are numbered in
\* the order in which they take the lock here.
StartCheck(c, url, fmt) ==
    /\ call[c].pc = "idle"
    /\ \A b \in Calls : b < c => call[b].pc # "idle"
    /\ IF AlreadyInProgress
       THEN /\ on_error(c, MsgBusy)
            /\ call' = [call EXCEPT ![c] = Return("None")]
       ELSE /\ call' = [call EXCEPT ![c] = [pc |-> "validate", url |-> url,
                                            format |-> fmt, ret |-> None]]
            /\ UNCHANGED <<queue, sunk>>
    /\ UNCHANGED <<current, downloads, history_store, cancel_event, current_filename,
                   worker, canceller, sinks, validations, history, observer, seen, track>>

\* lines 121-125: the validator.
StartValidate(c, answer) ==
    /\ call[c].pc = "validate"
    /\ LET validation == validate(call[c].url, answer) IN
       IF ~validation.is_valid
       THEN /\ on_error(c, validation.error_message)
            /\ call' = [call EXCEPT ![c] = Return("None")]
       ELSE /\ call' = [call EXCEPT ![c].pc = "can_write"]
            /\ UNCHANGED <<queue, sunk>>
    /\ UNCHANGED <<current, downloads, history_store, cancel_event, current_filename,
                   worker, canceller, sinks, validations, history, window, observer, seen, track>>

\* lines 127-140: the write-permission probe, then Download(...).
StartCanWrite(c, writable) ==
    /\ call[c].pc = "can_write"
    /\ IF ~writable
       THEN /\ on_error(c, MsgPermission)
            /\ call' = [call EXCEPT ![c] = Return("None")]
            /\ UNCHANGED downloads
       ELSE /\ downloads' = [downloads EXCEPT
                                ![c] = NewDownload(c, call[c].url, call[c].format)]
            /\ call' = [call EXCEPT ![c].pc = "register"]
            /\ UNCHANGED <<queue, sunk>>
    /\ UNCHANGED <<current, history_store, cancel_event, current_filename,
                   worker, canceller, sinks, validations, history, window, observer, seen, track>>

\* A start_download that does not fill the slot.
StartRegisterSkipped(c) ==
    /\ call[c].pc = "register"
    /\ call' = [call EXCEPT ![c].pc = "spawn"]
    /\ UNCHANGED <<current, downloads, history_store, cancel_event, current_filename,
                   worker, canceller, sinks, validations, history, window, observer, queue, seen, sunk, track>>
\* lines 142-143: the second `with self._lock:` block.
StartRegister(c) ==
    /\ call[c].pc = "register"
    /\ current' = c
    /\ call' = [call EXCEPT ![c].pc = "spawn"]
    /\ UNCHANGED <<downloads, history_store, cancel_event, current_filename,
                   worker, canceller, sinks, validations, history, window, observer, queue, seen, sunk, track>>

\* lines 145-153: the worker thread is started and the Download returned.
StartSpawn(c) ==
    /\ call[c].pc = "spawn"
    /\ worker' = [worker EXCEPT ![c].pc = "conn_progress"]
    /\ call' = [call EXCEPT ![c] = Return("Download")]
    /\ UNCHANGED <<current, downloads, history_store, cancel_event, current_filename,
                   canceller, sinks, validations, history, observer, queue, seen, sunk, track>>

(***************************************************************************)
(* download_service.py: _execute_download, the worker thread of job j.     *)
(***************************************************************************)
\* One statement that writes the job's record and moves on.
WriteRecord(j, at, d, next) ==
    /\ worker[j].pc = at
    /\ downloads' = [downloads EXCEPT ![j] = d]
    /\ worker' = [worker EXCEPT ![j].pc = next]
    /\ UNCHANGED <<current, history_store, cancel_event, current_filename,
                   call, canceller, sinks, validations, history, window, observer, queue, seen, sunk, track>>

\* A try statement whose handler stores the message without marking.
HandlerOfMessageOnly(e) == "error_message"
\* A try statement whose only handler is `except Exception`.
HandlerOfBroadExcept(e) == "error_status"
\* Which handler of _execute_download's try statement takes exception e.
HandlerOf(e) ==
    IF e.cls = "CancelledException" THEN "cancelled_status" ELSE "error_status"

\* The worker once the try block has unwound with e.
Unwound(j, e) ==
    [worker[j] EXCEPT !.pc = HandlerOf(e), !.exc = e, !.info = NoInfo,
                      !.back = None, !.hooks = 0, !.reports = 0, !.path = NoPath]

EngineOutcomeOf(e) ==
    IF e.cls = "CancelledException" THEN "cancelled" ELSE "failed"

\* A worker that leaves the status as it finds it.
WConnStatusSkipped(j) ==
    WriteRecord(j, "conn_status", downloads[j], "conn_sink")
\* line 175: download.update_progress(0, DownloadStatus.CONNECTING).
WConnProgress(j) ==
    WriteRecord(j, "conn_progress", SetProgress(downloads[j], 0), "conn_status")

WConnStatus(j) ==
    WriteRecord(j, "conn_status",
                SetTitle(SetStatus(downloads[j], CONNECTING), None), "conn_sink")

\* line 176: on_progress(0, DownloadStatus.CONNECTING, None).
WConnSink(j) ==
    /\ worker[j].pc = "conn_sink"
    /\ on_progress(j, 0, 0)
    /\ worker' = [worker EXCEPT ![j].pc = "engine_enter"]
    /\ UNCHANGED <<current, downloads, history_store, cancel_event, current_filename,
                   call, canceller, sinks, validations, history, window, observer, seen, track>>

\* handle_progress (lines 179-188): the status the service derives.
StatusOfInfo(info) ==
    IF info.status = "processing" THEN PROCESSING ELSE DOWNLOADING

HpProgress(j) ==
    WriteRecord(j, "hp_progress",
                SetProgress(downloads[j], worker[j].info.percent), "hp_status")

HpStatus(j) ==
    WriteRecord(j, "hp_status",
                SetStatus(downloads[j], StatusOfInfo(worker[j].info)), "hp_title")

HpTitle(j) ==
    WriteRecord(j, "hp_title",
                SetTitle(downloads[j], worker[j].info.title), "hp_sink")

\* line 188: on_progress(percent, status, title); handle_progress returns.
HpSink(j) ==
    /\ worker[j].pc = "hp_sink"
    /\ on_progress(j, worker[j].info.k, worker[j].info.percent)
    /\ worker' = [worker EXCEPT ![j].pc = worker[j].back,
                                ![j].info = NoInfo, ![j].back = None]
    /\ UNCHANGED <<current, downloads, history_store, cancel_event, current_filename,
                   call, canceller, sinks, validations, history, window, observer, seen, track>>

(***************************************************************************)
(* ytdlp_adapter.py: YtdlpAdapter.download, called by the worker at line   *)
(* 191.  yt-dlp itself is the environment: what extract_info and download  *)
(* do, and the progress hooks download makes, are chosen freely.           *)
(***************************************************************************)
InfoTitles == {"A"}
YtdlpFailures == {"private", "other"}

\* The dicts yt-dlp passes to the progress hook: a transfer half done, a
\* transfer past its estimated total (with a title), a finished file, and a
\* status the hook ignores.
HookEvents ==
    { [status |-> "downloading", downloaded_bytes |-> 1, total_bytes |-> 2, title |-> None],
      [status |-> "downloading", downloaded_bytes |-> 3, total_bytes |-> 2, title |-> "B"],
      [status |-> "finished", downloaded_bytes |-> 2, total_bytes |-> 2, title |-> None],
      [status |-> "error", downloaded_bytes |-> 0, total_bytes |-> 0, title |-> None] }

\* lines 148-165: what the adapter raises for a failure inside yt-dlp.  (The
\* "network" branch, line 155, differs from the last one in str(e) only: its
\* user_message is the text DownloadError defaults to.)
AdapterError(kind) ==
    CASE kind = "private" -> ContentUnavailableError          \* line 152
      [] OTHER -> DownloadError("unsupported format", None)  \* lines 160, 165

\* lines 77-83: the hook's percentage.  The byte counts of the model are
\* small enough for the float product to be exact.
HookPercent(d) ==
    IF d.total_bytes > 0 THEN (d.downloaded_bytes * 100) \div d.total_bytes ELSE 0

\* lines 73-99: the progress_info the hook passes on for d.
HookInfo(d, k) ==
    IF d.status = "downloading"
    THEN [percent |-> HookPercent(d), status |-> "downloading", title |-> d.title, k |-> k]
    ELSE [percent |-> 100, status |-> "processing", title |-> d.title, k |-> k]

EngineRaises(j, e) ==
    /\ worker' = [worker EXCEPT ![j] = Unwound(j, e)]
    /\ track' = [track EXCEPT ![j].outcome = EngineOutcomeOf(e), ![j].failure = e]

\* lines 62-65: import yt_dlp; self._cancel_event.clear();
\* self._current_filename = None.  The two writes are to fields no other
\* step reads together, so one step stands for both.
EngineEnter(j, importable) ==
    /\ worker[j].pc = "engine_enter"
    /\ IF importable
       THEN /\ cancel_event' = FALSE
            /\ current_filename' = NoJob
            /\ worker' = [worker EXCEPT ![j].pc = "extract"]
            /\ UNCHANGED track
       ELSE /\ EngineRaises(j, ImportError)
            /\ UNCHANGED <<cancel_event, current_filename>>
    /\ UNCHANGED <<current, downloads, history_store, call, canceller, sinks, validations, history, window, observer,
                   queue, seen, sunk>>

\* lines 107-116: extract_info, then the adapter's own "connecting" event.
ExtractInfo(j, found, title) ==
    /\ worker[j].pc = "extract"
    /\ IF found
       THEN /\ worker' = [worker EXCEPT
                ![j].pc = "hp_progress", ![j].back = "pre_check",
                ![j].reports = @ + 1,
                ![j].info = [percent |-> 0, status |-> "connecting",
                             title |-> title, k |-> worker[j].reports + 1]]
            /\ UNCHANGED track
       ELSE EngineRaises(j, ContentUnavailableError)
    /\ UNCHANGED <<current, downloads, history_store, cancel_event, current_filename,
                   call, canceller, sinks, validations, history, window, observer, queue, seen, sunk>>

\* lines 118-120: the check before ydl.download.
PreCheck(j) ==
    /\ worker[j].pc = "pre_check"
    /\ IF cancel_event
       THEN EngineRaises(j, CancelledException)
       ELSE /\ worker' = [worker EXCEPT ![j].pc = "ydl_download"]
            /\ UNCHANGED track
    /\ UNCHANGED <<current, downloads, history_store, cancel_event, current_filename,
                   call, canceller, sinks, validations, history, window, observer, queue, seen, sunk>>

\* lines 68-99: progress_hook(d), which yt-dlp calls during ydl.download.
progress_hook(j, d) ==
    /\ worker[j].pc = "ydl_download"
    /\ IF cancel_event
       THEN /\ worker' = [worker EXCEPT ![j] = Unwound(j, CancelledException)]
            /\ track' = [track EXCEPT
                            ![j].outcome = EngineOutcomeOf(CancelledException),
                            ![j].failure = CancelledException,
                            ![j].hook_after_cancel = @ \/ track[j].cancel_true]
            /\ UNCHANGED current_filename
       ELSE /\ track' = [track EXCEPT
                            ![j].hook_after_cancel = @ \/ track[j].cancel_true]
            /\ IF d.status \in {"downloading", "finished"}
               THEN worker' = [worker EXCEPT
                        ![j].hooks = @ + 1, ![j].reports = @ + 1,
                        ![j].pc = "hp_progress", ![j].back = "ydl_download",
                        ![j].info = HookInfo(d, worker[j].reports + 1)]
               ELSE worker' = [worker EXCEPT ![j].hooks = @ + 1]
            /\ IF d.status = "finished"
               THEN current_filename' = j
               ELSE UNCHANGED current_filename
    /\ UNCHANGED <<current, downloads, history_store, cancel_event,
                   call, canceller, sinks, validations, history, window, observer, queue, seen, sunk>>

\* yt-dlp calls the hook at most MaxHooks times during one run.
ProgressHook(j, d) ==
    /\ worker[j].hooks < MaxHooks
    /\ progress_hook(j, d)

\* lines 237-239: a video is fetched as "bestvideo+bestaudio", two streams
\* that yt-dlp downloads one after the other and merges; the hook is called
\* for each stream, so one more event follows those of the first stream.
NextStreamHook(j, d) ==
    /\ worker[j].hooks = MaxHooks
    /\ progress_hook(j, d)
\* yt-dlp fails inside extract_info or download; lines 148-165 map it.
YtdlpRaises(j, kind) ==
    /\ worker[j].pc \in {"extract", "ydl_download"}
    /\ EngineRaises(j, AdapterError(kind))
    /\ UNCHANGED <<current, downloads, history_store, cancel_event, current_filename,
                   call, canceller, sinks, validations, history, window, observer, queue, seen, sunk>>

\* line 123 returns; lines 125-141 look for the file and return its path.
YdlReturn(j, exists) ==
    /\ worker[j].pc = "ydl_download"
    /\ LET file == IF current_filename # NoJob THEN current_filename ELSE j IN
       IF exists
       THEN /\ worker' = [worker EXCEPT ![j].pc = "set_path", ![j].path = FileOf(file),
                                        ![j].hooks = 0, ![j].reports = 0]
            /\ track' = [track EXCEPT ![j].outcome = "returned"]
       ELSE EngineRaises(j, DownloadError("Download completed but file not found",
                                          "La descarga se completo pero no se encontro el archivo."))
    /\ UNCHANGED <<current, downloads, history_store, cancel_event, current_filename,
                   call, canceller, sinks, validations, history, window, observer, queue, seen, sunk>>

(***************************************************************************)
(* _execute_download after the engine call: lines 198-227.                 *)
(***************************************************************************)
\* line 199: download.output_path = output_path.
SetPath(j) ==
    /\ worker[j].pc = "set_path"
    /\ downloads' = [downloads EXCEPT ![j].output_path = worker[j].path]
    /\ worker' = [worker EXCEPT ![j].pc = "done_status", ![j].path = NoPath]
    /\ UNCHANGED <<current, history_store, cancel_event, current_filename,
                   call, canceller, sinks, validations, history, window, observer, queue, seen, sunk, track>>

\* line 200: download.mark_completed().
DoneStatus(j) ==
    WriteRecord(j, "done_status", SetStatus(downloads[j], COMPLETED), "done_progress")

DoneProgress(j) ==
    WriteRecord(j, "done_progress", MarkCompletedProgress(downloads[j]), "done_stamp")

DoneStamp(j) ==
    WriteRecord(j, "done_stamp", StampCompletedAt(downloads[j]), "history")

\* lines 203-207: the history entry, when a store is configured.  add may
\* raise; the exception then goes to the `except Exception` handler.
HistoryAdd(j, fails) ==
    /\ worker[j].pc = "history"
    /\ IF history_store
       THEN /\ track' = [track EXCEPT ![j].history_adds = @ + 1]
            /\ IF fails
               THEN worker' = [worker EXCEPT ![j] = Unwound(j, HistoryFailure)]
               ELSE worker' = [worker EXCEPT ![j].pc = "complete_sink"]
       ELSE /\ worker' = [worker EXCEPT ![j].pc = "complete_sink"]
            /\ UNCHANGED track
    /\ UNCHANGED <<current, downloads, history_store, cancel_event, current_filename,
                   call, canceller, sinks, validations, history, window, observer, queue, seen, sunk>>

\* line 209: on_complete(download).
CompleteSink(j) ==
    /\ worker[j].pc = "complete_sink"
    /\ on_complete(j)
    /\ worker' = [worker EXCEPT ![j].pc = "finally"]
    /\ UNCHANGED <<current, downloads, history_store, cancel_event, current_filename,
                   call, canceller, sinks, validations, history, window, observer, seen, track>>

\* lines 211-213: except CancelledException.
CancelledStatus(j) ==
    WriteRecord(j, "cancelled_status", SetStatus(downloads[j], CANCELLED),
                "cancelled_stamp")

CancelledStamp(j) ==
    WriteRecord(j, "cancelled_stamp", StampCompletedAt(downloads[j]), "cancelled_sink")

CancelledSink(j) ==
    /\ worker[j].pc = "cancelled_sink"
    /\ on_complete(j)
    /\ worker' = [worker EXCEPT ![j].pc = "finally"]
    /\ UNCHANGED <<current, downloads, history_store, cancel_event, current_filename,
                   call, canceller, sinks, validations, history, window, observer, seen, track>>

\* A handler that does not mark the record.
ErrorStatusSkipped(j) ==
    WriteRecord(j, "error_status", downloads[j], "error_message")
\* lines 215-221: except Exception.
ErrorStatus(j) ==
    WriteRecord(j, "error_status", SetStatus(downloads[j], ERROR), "error_message")

ErrorMessage(j) ==
    WriteRecord(j, "error_message",
                SetErrorMessage(downloads[j], ErrorMessageOf(worker[j].exc)),
                "error_stamp")

ErrorStamp(j) ==
    WriteRecord(j, "error_stamp", StampCompletedAt(downloads[j]), "error_sink")

ErrorSink(j) ==
    /\ worker[j].pc = "error_sink"
    /\ on_error(j, ErrorMessageOf(worker[j].exc))
    /\ worker' = [worker EXCEPT ![j].pc = "finally"]
    /\ UNCHANGED <<current, downloads, history_store, cancel_event, current_filename,
                   call, canceller, sinks, validations, history, window, observer, seen, track>>

\* A finally block that empties the slot of its own terminal job.
FinallyClearingSlot(j) ==
    /\ worker[j].pc = "finally"
    /\ worker' = [worker EXCEPT ![j].pc = "finished", ![j].exc = NoException]
    /\ current' = IF current = j /\ is_terminal(downloads[j]) THEN NoJob ELSE current
    /\ UNCHANGED <<downloads, history_store, cancel_event, current_filename,
                   call, canceller, sinks, validations, history, window, observer, queue, seen, sunk, track>>
\* lines 223-227: the finally block takes the lock and changes nothing.
Finally(j) ==
    /\ worker[j].pc = "finally"
    /\ worker' = [worker EXCEPT ![j].pc = "finished", ![j].exc = NoException]
    /\ UNCHANGED <<current, downloads, history_store, cancel_event, current_filename,
                   call, canceller, sinks, validations, history, window, observer, queue, seen, sunk, track>>

(***************************************************************************)
(* download_service.py: cancel_download (lines 229-251).                   *)
(***************************************************************************)
\* The locked block without its is_active test.
CancelAdmittedById(download_id) ==
    /\ current # NoJob
    /\ downloads[current].id = download_id
\* lines 239-247: the locked block; TRUE when the call goes on to cancel.
CancelAdmitted(download_id) ==
    /\ current # NoJob
    /\ downloads[current].id = download_id
    /\ is_active(downloads[current])

CancelCheck(download_id) ==
    /\ canceller.pc = "idle"
    /\ canceller.n < MaxCancels
    /\ IF CancelAdmitted(download_id)
       THEN canceller' = [canceller EXCEPT !.pc = "signal", !.arg = download_id,
                                           !.n = @ + 1, !.ret = None]
       ELSE canceller' = [canceller EXCEPT !.arg = download_id, !.n = @ + 1,
                                           !.ret = "False"]
    /\ UNCHANGED <<current, downloads, history_store, cancel_event, current_filename,
                   call, worker, sinks, validations, history, observer, queue, seen, sunk, track>>

\* A cancel_download that marks the record cancelled itself.
CancelSignalMarking ==
    /\ canceller.pc = "signal"
    /\ cancel_event' = TRUE
    /\ canceller' = [canceller EXCEPT !.pc = "idle", !.ret = "True",
                                      !.engine_cancels = @ + 1]
    /\ track' = [track EXCEPT ![canceller.arg].cancel_true = TRUE]
    /\ downloads' = [downloads EXCEPT ![canceller.arg].status = CANCELLED]
    /\ UNCHANGED <<current, history_store, current_filename,
                   call, worker, sinks, validations, history, window, observer, queue, seen, sunk>>
\* lines 249-251: self._downloader.cancel() (adapter line 169); return True.
CancelSignal ==
    /\ canceller.pc = "signal"
    /\ cancel_event' = TRUE
    /\ canceller' = [canceller EXCEPT !.pc = "idle", !.ret = "True",
                                      !.engine_cancels = @ + 1]
    /\ track' = [track EXCEPT ![canceller.arg].cancel_true = TRUE]
    /\ UNCHANGED <<current, downloads, history_store, current_filename,
                   call, worker, sinks, validations, history, window, observer, queue, seen, sunk>>

(***************************************************************************)
(* download_service.py: the `with self._lock:` blocks.  Each is one step   *)
(* of the model; these are the positions from which such a step starts.    *)
(***************************************************************************)
\* lines 115-119 and 142-143 of start_download.
StartLockedBlocks == {"idle", "register"}
\* lines 223-227 of _execute_download: the only locked block of the worker.
WorkerLockedBlocks == {"finally"}
\* lines 239-247 of cancel_download.
CancelLockedBlocks == {"idle"}
(***************************************************************************)
(* The specifications.                                                     *)
(***************************************************************************)
\* The steps of a start_download call after its first locked block.
StartRest(c) ==
    \/ \E answer \in RegistryAnswers : StartValidate(c, answer)
    \/ \E writable \in BOOLEAN : StartCanWrite(c, writable)
    \/ StartRegister(c)

\* The statements of the worker thread of job j.
WorkerOf(j) ==
        \/ WConnProgress(j) \/ WConnStatus(j) \/ WConnSink(j)
        \/ HpProgress(j) \/ HpStatus(j) \/ HpTitle(j) \/ HpSink(j)
        \/ SetPath(j) \/ DoneStatus(j) \/ DoneProgress(j) \/ DoneStamp(j)
        \/ \E fails \in BOOLEAN : HistoryAdd(j, fails)
        \/ CompleteSink(j)
        \/ CancelledStatus(j) \/ CancelledStamp(j) \/ CancelledSink(j)
        \/ ErrorStatus(j) \/ ErrorMessage(j) \/ ErrorStamp(j) \/ ErrorSink(j)
        \/ Finally(j)

WorkerStep == \E j \in Calls : WorkerOf(j)

EngineStep ==
    \E j \in Calls :
        \/ \E importable \in BOOLEAN : EngineEnter(j, importable)
        \/ \E found \in BOOLEAN, title \in InfoTitles : ExtractInfo(j, found, title)
        \/ PreCheck(j)
        \/ \E d \in HookEvents : ProgressHook(j, d)
        \/ \E kind \in YtdlpFailures : YtdlpRaises(j, kind)
        \/ \E exists \in BOOLEAN : YdlReturn(j, exists)

\* The ids a caller can pass to cancel_download: those of the Downloads that
\* start_download has returned (uuid4 strings cannot be guessed), and one
\* that no Download has.
KnownIds == {NoJob} \cup {c \in Calls : call[c].ret = "Download"}

\* One calling thread: a call begins when the thread is in no other call.
CallerStep ==
    \/ \E c \in Calls, url \in URLs, fmt \in Formats :
          CallerIdle /\ StartCheck(c, url, fmt) /\ UNCHANGED window
    \/ \E c \in Calls : StartRest(c)
    \/ \E c \in Calls : StartSpawn(c) /\ UNCHANGED window
    \/ \E download_id \in KnownIds :
          CallerIdle /\ CancelCheck(download_id) /\ UNCHANGED window
    \/ CancelSignal

Next == CallerStep \/ WorkerStep \/ EngineStep

Spec == Init /\ [][Next]_vars

\* Spec with worker threads that the scheduler does not starve: a worker
\* whose next statement can run (it never waits for the caller: its only
\* lock block is the one of lines 223-227) runs it eventually.
SpecFair == Spec /\ \A j \in Calls : WF_vars(WorkerOf(j))
\* download_service.py lines 253-261: get_current_download, from any thread
\* at any time: the locked block returns self._current_download itself.
GetCurrentDownload ==
    /\ observer.n < MaxGets
    /\ observer' = [n |-> observer.n + 1, ref |-> current]
    /\ UNCHANGED <<current, downloads, history_store, cancel_event, current_filename,
                   call, worker, canceller, sinks, validations, history, window, queue, seen, sunk, track>>

NextObserve == Next \/ GetCurrentDownload

SpecObserve == Init /\ [][NextObserve]_vars

\* The service with a download of two streams.
NextStreams == Next \/ \E j \in Calls, d \in HookEvents : NextStreamHook(j, d)

SpecStreams == Init /\ [][NextStreams]_vars
\* A button whose on_download is not tied to its state.
WindowStartDownloadAnyTime(c, url, fmt) ==
    /\ CallerIdle
    /\ Strip(url) # ""
    /\ StartCheck(c, Strip(url), fmt)
    /\ window' = [window EXCEPT !.is_downloading = TRUE]
\* main_window.py lines 187-209: _start_download, the button's on_download
\* (download_button.py lines 52-59: only while not _is_downloading), up to
\* the first locked block of start_download.  get_url() returns the text
\* stripped (url_input.py line 87) and an empty one is refused at line 193.
WindowStartDownload(c, url, fmt) ==
    /\ CallerIdle
    /\ ~window.is_downloading
    /\ Strip(url) # ""
    /\ StartCheck(c, Strip(url), fmt)
    /\ window' = [window EXCEPT !.is_downloading = TRUE]      \* line 198

\* lines 202-212: start_download returns a Download; the window keeps it.
WindowStarted(c) ==
    /\ StartSpawn(c)
    /\ window' = [window EXCEPT !.current_download = c]

\* lines 214-217: _cancel_download, the button's on_cancel (only while
\* _is_downloading), up to the locked block of cancel_download.
WindowCancelDownload ==
    /\ CallerIdle
    /\ window.is_downloading
    /\ window.current_download # NoJob
    /\ CancelCheck(window.current_download)
    /\ UNCHANGED window

\* The UI thread of MainWindow: button clicks and the queue poll.
WindowStep ==
    \/ \E c \in Calls, url \in URLs, fmt \in Formats : WindowStartDownload(c, url, fmt)
    \/ \E c \in Calls : StartRest(c)
    \/ \E c \in Calls : WindowStarted(c)
    \/ WindowCancelDownload
    \/ CancelSignal
    \/ PollQueue

NextUI == WindowStep \/ WorkerStep \/ EngineStep

SpecUI == InitUI /\ [][NextUI]_vars

\* SpecUI with a UI thread that goes on: the poll is rescheduled every 100 ms
\* (main_window.py line 242) and cancel_download, once past its locked
\* block, calls the adapter's cancel and returns.
SpecUIFair == SpecUI /\ WF_vars(PollQueue) /\ WF_vars(CancelSignal)
\* Several calling threads: every call may begin at any time.
ThreadsStep ==
    \/ \E c \in Calls, url \in URLs, fmt \in Formats :
          StartCheck(c, url, fmt) /\ UNCHANGED window
    \/ \E c \in Calls : StartRest(c)
    \/ \E c \in Calls : StartSpawn(c) /\ UNCHANGED window
    \/ \E download_id \in KnownIds : CancelCheck(download_id) /\ UNCHANGED window
    \/ CancelSignal

NextOverlap == ThreadsStep \/ WorkerStep \/ EngineStep

SpecOverlap == Init /\ [][NextOverlap]_vars

(***************************************************************************)
(* models.py: the methods of one Download called one after the other by a  *)
(* single thread, as the unit tests of the record do (test_models.py).     *)
(***************************************************************************)
Percents == {-50, -1, 0, 50, 100, 101, 150}
StatusArgs == ActiveStatuses \cup TerminalStatuses
TitleArgs == {None, "", "A", "B"}
MessageArgs == {"boom"}

\* lines 68-80.
UpdateProgress(d, percent, status, title) ==
    SetTitle(SetStatus(SetProgress(d, percent), status), title)
\* lines 82-86.
MarkCompleted(d) == StampCompletedAt(MarkCompletedProgress(SetStatus(d, COMPLETED)))
\* lines 88-92.
MarkError(d, message) == StampCompletedAt(SetErrorMessage(SetStatus(d, ERROR), message))
\* lines 94-97.
MarkCancelled(d) == StampCompletedAt(SetStatus(d, CANCELLED))

\* The record under test is downloads[1]; everything else stays as built.
RecordCall(d, method, percent, title) ==
    /\ downloads' = [downloads EXCEPT ![1] = d]
    /\ track' = [track EXCEPT ![1].method = method, ![1].percent_arg = percent,
                              ![1].title_arg = title]
    /\ UNCHANGED <<current, history_store, cancel_event, current_filename, call,
                   worker, canceller, sinks, validations, history, window, observer, queue, seen, sunk>>

update_progress(percent, status, title) ==
    RecordCall(UpdateProgress(downloads[1], percent, status, title),
               "update_progress", percent, title)

mark_completed ==
    /\ downloads[1].completed_at < MaxMarks
    /\ RecordCall(MarkCompleted(downloads[1]), "mark_completed", 0, None)

mark_error(message) ==
    /\ downloads[1].completed_at < MaxMarks
    /\ RecordCall(MarkError(downloads[1], message), "mark_error", 0, None)

mark_cancelled ==
    /\ downloads[1].completed_at < MaxMarks
    /\ RecordCall(MarkCancelled(downloads[1]), "mark_cancelled", 0, None)

\* Download(..., progress=progress): the dataclass stores the argument.
DownloadDefaults(id, url, fmt, progress) == NewDownload(id, url, fmt)
DownloadWith(id, url, fmt, progress) ==
    [NewDownload(id, url, fmt) EXCEPT !.progress = progress]

\* line 65: the test of __post_init__.
ProgressAtLeastZero(progress) == 0 <= progress
ProgressInRange(progress) == 0 <= progress /\ progress <= 100

\* line 66: the exception __post_init__ raises.
ValueError ==
    [cls |-> "ValueError", message |-> "Progress must be between 0 and 100",
     user_message |-> NoAttr]

\* A second record is constructed with an explicit progress, once, as
\* test_models.py lines 70-88 do: downloads[2] is the object the constructor
\* returns, if it returns one; track[2] keeps the argument and the exception.
ConstructDownload(progress) ==
    /\ track[2].method = None
    /\ IF ProgressInRange(progress)
       THEN /\ downloads' = [downloads EXCEPT
                               ![2] = DownloadWith(2, "https://x.com/a", "video", progress)]
            /\ track' = [track EXCEPT ![2].method = "init",
                                      ![2].percent_arg = progress]
       ELSE /\ UNCHANGED downloads
            /\ track' = [track EXCEPT ![2].method = "init",
                                      ![2].percent_arg = progress,
                                      ![2].failure = ValueError]
    /\ UNCHANGED <<current, history_store, cancel_event, current_filename, call,
                   worker, canceller, sinks, validations, history, window, observer, queue, seen, sunk>>
\* Download(url=..., output_path=..., format=...): the defaults of lines 56-61.
InitRecord ==
    /\ current = NoJob
    /\ downloads = [j \in Calls |-> IF j = 1
                                    THEN NewDownload(1, "https://x.com/a", "video")
                                    ELSE NoDownload]
    /\ history_store = TRUE
    /\ validations = <<>>
    /\ history = NoHistory
    /\ cancel_event = FALSE
    /\ current_filename = NoJob
    /\ call = [c \in Calls |-> IdleCall]
    /\ worker = [j \in Calls |-> IdleWorker]
    /\ canceller = IdleCanceller
    /\ sinks = "recording"
    /\ queue = <<>>
    /\ seen = [j \in Calls |-> NothingSeen]
    /\ sunk = [c \in Calls |-> NothingSunk]
    /\ track = [j \in Calls |-> NoTrack]
    /\ window = IdleWindow
    /\ observer = NoObserver

NextRecord ==
    \/ \E progress \in Percents : ConstructDownload(progress)
    \/ \E percent \in Percents, status \in StatusArgs, title \in TitleArgs :
          update_progress(percent, status, title)
    \/ mark_completed
    \/ \E message \in MessageArgs : mark_error(message)
    \/ mark_cancelled

SpecRecord == InitRecord /\ [][NextRecord]_vars

(***************************************************************************)
(* validators.py: URLValidator.validate called directly, as the unit tests *)
(* of the validator do (test_validators.py); each call is logged with its  *)
(* result.                                                                 *)
(***************************************************************************)
Validate(url, answer) ==
    /\ Len(validations) < MaxValidations
    /\ validations' = Append(validations,
                            [url |-> url, answer |-> answer,
                             result |-> validate(url, answer)])
    /\ UNCHANGED <<current, downloads, history_store, cancel_event, current_filename,
                   call, worker, canceller, sinks, history, window, observer, queue,
                   seen, sunk, track>>

NextValidate == \E url \in URLs, answer \in RegistryAnswers : Validate(url, answer)

SpecValidate == Init /\ [][NextValidate]_vars
(***************************************************************************)
(* history_store.py: the methods of one HistoryStore called directly.  An  *)
(* entry is the ordinal of the add that submitted it.  load() returns the  *)
(* cached list object itself, so add's insert(0, entry) changes the cache  *)
(* in place before anything is saved.                                      *)
(***************************************************************************)
MAX_HISTORY_ENTRIES == 5

\* lines 41-68: what load() returns, which also becomes the cache.
load == IF history.cached THEN history.entries ELSE history.file

\* lines 121-122: the slice is a new list; the cached list is the one the
\* insert changed.
CachedAfterInsert(entries) == entries

\* lines 118-122: the list add hands to save.
Truncated(entries) ==
    IF Len(entries) > MAX_HISTORY_ENTRIES
    THEN SubSeq(entries, 1, MAX_HISTORY_ENTRIES) ELSE entries

\* lines 104-124: add(entry).  save (lines 70-102) writes the file and then
\* replaces the cache, or fails before either and returns False.
HistoryStoreAdd(saved) ==
    /\ history.n < MaxAdds
    /\ LET entry == history.n + 1
           inserted == <<entry>> \o load
       IN  history' = [history EXCEPT
               !.n = entry, !.last = "add", !.cached = TRUE,
               !.file = IF saved THEN Truncated(inserted) ELSE @,
               !.entries = IF saved THEN Truncated(inserted)
                           ELSE CachedAfterInsert(inserted)]
    /\ UNCHANGED <<current, downloads, history_store, cancel_event, current_filename,
                   call, worker, canceller, sinks, validations, window, observer,
                   queue, seen, sunk, track>>

\* lines 126-133: clear().
HistoryStoreClear(saved) ==
    /\ history.clears < MaxClears
    /\ history' = [history EXCEPT
           !.clears = @ + 1, !.last = "clear", !.cached = TRUE,
           !.file = IF saved THEN <<>> ELSE @,
           !.entries = <<>>]
    /\ UNCHANGED <<current, downloads, history_store, cancel_event, current_filename,
                   call, worker, canceller, sinks, validations, window, observer,
                   queue, seen, sunk, track>>

\* lines 135-142: get_entries() returns load(), which fills the cache.
get_entries == load
GetEntries ==
    /\ ~history.cached
    /\ history' = [history EXCEPT !.cached = TRUE, !.entries = load]
    /\ UNCHANGED <<current, downloads, history_store, cancel_event, current_filename,
                   call, worker, canceller, sinks, validations, window, observer,
                   queue, seen, sunk, track>>

NextHistory ==
    \/ \E saved \in BOOLEAN : HistoryStoreAdd(saved)
    \/ \E saved \in BOOLEAN : HistoryStoreClear(saved)
    \/ GetEntries

SpecHistory == Init /\ [][NextHistory]_vars
(***************************************************************************)
(* The claims.                                                             *)
(***************************************************************************)
Started(j) == worker[j].pc # "idle"
Finished(j) == worker[j].pc = "finished"
Status(j) == downloads[j].status
ReturnedNone(c) == call[c].pc = "returned" /\ call[c].ret = "None"

\* C1: at most one job of the service is non-terminal at any moment, also
\* when start_download calls overlap on different threads.  (The statement
\* of the claim; the code violates it.)
C1_AtMostOneActiveJob ==
    Cardinality({j \in Calls : Started(j) /\ Status(j) \in ActiveStatuses}) <= 1

\* C2: a start_download that finds the current job non-terminal returns None,
\* calls on_error once with the "already in progress" message, starts no
\* worker and leaves the slot and the existing record as they were; a call
\* that returned None never gets a worker or a second sink call.
C2_BusyStartRejected ==
    [][\A c \in Calls :
        /\ ( /\ call[c].pc = "idle" /\ call'[c].pc # "idle"
             /\ current # NoJob
             /\ downloads[current].status \in {PENDING, CONNECTING, DOWNLOADING, PROCESSING} )
           => /\ call'[c].pc = "returned" /\ call'[c].ret = "None"
              /\ sunk'[c].error = 1 /\ sunk'[c].msg = MsgBusy
              /\ sunk'[c].complete = 0 /\ sunk'[c].last_k = -1
              /\ worker' = worker
              /\ current' = current
              /\ downloads' = downloads
        /\ ReturnedNone(c)
           => /\ call'[c] = call[c] /\ sunk'[c] = sunk[c]
              /\ worker'[c].pc = "idle" /\ downloads'[c] = downloads[c]]_vars

C2_Witness ==
    \E c \in Calls :
        /\ ReturnedNone(c) /\ sunk[c].msg = MsgBusy /\ sunk[c].error = 1
        /\ current # NoJob /\ Status(current) = DOWNLOADING

\* C3: a job for which cancel_download returned True, and whose engine made
\* a progress report after that, ends CANCELLED with on_complete called once
\* and on_error never.  (The statement of the claim, for a job whose worker
\* has ended; the code violates it.)
C3_CancelTrueEndsCancelled ==
    \A j \in Calls :
        (track[j].cancel_true /\ track[j].hook_after_cancel /\ Finished(j))
        => /\ Status(j) = CANCELLED
           /\ sunk[j].complete = 1 /\ sunk[j].error = 0

\* C4: a status that is COMPLETED, CANCELLED or ERROR never changes again.
\* (The statement of the claim; the code violates it.)
C4_TerminalStatusIsFinal ==
    [][\A j \in Calls :
        Status(j) \in {COMPLETED, CANCELLED, ERROR}
        => downloads'[j].status = downloads[j].status]_vars

\* C5: for each job, on_complete and on_error together are called at most
\* once, exactly once when the worker has ended; no on_progress comes after
\* it and the on_progress calls follow the engine's order; the consumer of
\* the update queue applies the job's events in that same order.
C5_OneTerminalSinkLast ==
    \A j \in Calls :
        /\ sunk[j].complete + sunk[j].error <= 1
        /\ Finished(j) => sunk[j].complete + sunk[j].error = 1
        /\ ~sunk[j].late /\ ~sunk[j].out_of_order
        /\ seen[j].terminal <= 1
        /\ ~seen[j].late /\ ~seen[j].out_of_order

C5_Witness ==
    \E j \in Calls :
        /\ Finished(j) /\ track[j].outcome = "returned"
        /\ sunk[j].complete = 1 /\ seen[j].terminal = 1
        /\ \E i \in Calls : i # j /\ seen[i].last_k >= 1

\* C6: when the engine call unwinds with the cancellation outcome, on_error
\* is never called for the job, and once the worker has ended the job is
\* CANCELLED, completed_at is set and on_complete was called once.
C6_CancellationOutcome ==
    \A j \in Calls :
        track[j].outcome = "cancelled"
        => /\ sunk[j].error = 0
           /\ Finished(j) => /\ Status(j) = CANCELLED
                             /\ downloads[j].completed_at > 0
                             /\ sunk[j].complete = 1

C6_Witness ==
    \E j \in Calls :
        /\ track[j].outcome = "cancelled" /\ Finished(j)
        /\ Status(j) = CANCELLED /\ sunk[j].complete = 1

\* C7: when the engine call raises a failure other than cancellation,
\* on_complete is never called for the job, and once the worker has ended the
\* job is ERROR, completed_at is set, error_message is the failure's
\* user_message when it has one and str(e) otherwise, and on_error was called
\* once, with that message.
C7_FailureOutcome ==
    \A j \in Calls :
        track[j].outcome = "failed"
        => /\ sunk[j].complete = 0
           /\ sunk[j].error <= 1
           /\ Finished(j) =>
                /\ Status(j) = ERROR
                /\ downloads[j].completed_at > 0
                /\ downloads[j].error_message =
                     (IF track[j].failure.user_message # NoAttr
                      THEN track[j].failure.user_message
                      ELSE track[j].failure.message)
                /\ sunk[j].error = 1
                /\ sunk[j].msg = downloads[j].error_message

C7_Witness ==
    \E i, j \in Calls :
        /\ Finished(i) /\ track[i].outcome = "failed"
        /\ downloads[i].error_message = "No module named yt_dlp"
        /\ Finished(j) /\ track[j].outcome = "failed"
        /\ downloads[j].error_message = "La descarga se completo pero no se encontro el archivo."

\* C8: cancel_download(id) with no current job, with an id that is not the
\* current job's, or with the current job terminal returns False at once,
\* does not call the engine's cancel and changes neither the slot nor any
\* record.
C8_CancelRefused ==
    [][( /\ canceller'.n = canceller.n + 1
         /\ \/ current = NoJob
            \/ downloads[current].id # canceller'.arg
            \/ downloads[current].status \in {COMPLETED, CANCELLED, ERROR} )
        => /\ canceller'.ret = "False" /\ canceller'.pc = "idle"
           /\ canceller'.engine_cancels = canceller.engine_cancels
           /\ cancel_event' = cancel_event
           /\ current' = current
           /\ downloads' = downloads]_vars

C8_Witness ==
    /\ canceller.ret = "False" /\ canceller.engine_cancels = 0
    /\ current # NoJob /\ canceller.arg = downloads[current].id
    /\ Status(current) = COMPLETED /\ ~cancel_event

\* C9: cancel_download(id) for the current job while it is active goes on to
\* call the engine's cancel once and returns True, whatever the worker is
\* doing; neither of its steps writes a record, and a status becomes
\* CANCELLED only by the worker's own handler.
C9_CancelAccepted ==
    [][/\ ( /\ canceller'.n = canceller.n + 1
            /\ current # NoJob
            /\ downloads[current].id = canceller'.arg
            /\ downloads[current].status \in {PENDING, CONNECTING, DOWNLOADING, PROCESSING} )
          => /\ canceller'.pc = "signal"
             /\ downloads' = downloads /\ current' = current
       /\ canceller.pc = "signal" /\ canceller' # canceller
          => /\ canceller'.ret = "True" /\ canceller'.pc = "idle"
             /\ canceller'.engine_cancels = canceller.engine_cancels + 1
             /\ cancel_event'
             /\ downloads' = downloads /\ current' = current /\ worker' = worker
       /\ \A j \in Calls :
            (downloads'[j].status = CANCELLED /\ downloads[j].status # CANCELLED)
            => /\ worker[j].pc = "cancelled_status"
               /\ worker'[j].pc # worker[j].pc
               /\ canceller' = canceller]_vars

C9_Witness ==
    /\ canceller.ret = "True" /\ canceller.engine_cancels = 1
    /\ current # NoJob /\ canceller.arg = downloads[current].id
    /\ Status(current) \in ActiveStatuses

\* C10: a start_download whose URL the validator rejects, or whose folder is
\* not writable, returns None in the step that calls on_error, once, with the
\* validator's message or the permission message; it creates no record,
\* leaves the slot alone, starts no worker and never reaches the engine.
RejectedUrlMessage(url) ==
    CASE url \in {"", "  "} -> MsgEmpty
      [] url \in {"ftp://x.com", "https:///a"} -> MsgInvalid
      [] OTHER -> None

C10_InvalidStartRejected ==
    [][\A c \in Calls :
        /\ (call[c].pc = "validate" /\ call'[c].pc # "validate")
           => /\ RejectedUrlMessage(call[c].url) # None
                 => /\ call'[c].pc = "returned"
                    /\ sunk'[c].msg = RejectedUrlMessage(call[c].url)
              /\ call'[c].pc = "returned"
                 => /\ call'[c].ret = "None"
                    /\ sunk'[c].error = 1 /\ sunk'[c].complete = 0
                    /\ sunk'[c].msg \in {MsgEmpty, MsgInvalid, MsgUnsupported}
                    /\ downloads' = downloads /\ downloads[c] = NoDownload
                    /\ current' = current /\ worker' = worker
        /\ (call[c].pc = "can_write" /\ call'[c].pc = "returned")
           => /\ call'[c].ret = "None"
              /\ sunk'[c].error = 1 /\ sunk'[c].complete = 0
              /\ sunk'[c].msg = MsgPermission
              /\ downloads' = downloads /\ downloads[c] = NoDownload
              /\ current' = current /\ worker' = worker
        /\ ReturnedNone(c)'
           => /\ worker'[c].pc = "idle" /\ track'[c].outcome = None
              /\ downloads'[c] = NoDownload /\ current' # c
              /\ sunk'[c].error = 1]_vars

C10_Witness ==
    \E b, c \in Calls :
        /\ ReturnedNone(b) /\ sunk[b].msg = MsgInvalid
        /\ ReturnedNone(c) /\ sunk[c].msg = MsgPermission
        /\ current = NoJob

\* C11: an accepted start_download has made its record the current job when
\* it returns and returns that record; until it has started the worker thread
\* the job's engine has not been touched, and the return does not wait for
\* the worker: it leaves the worker at its first statement.
C11_AcceptedStartReturnsRegistered ==
    [][\A c \in Calls :
        /\ (call[c].pc = "spawn" /\ call'[c].pc = "returned")
           => /\ call'[c].ret = "Download"
              /\ current = c /\ current' = c
              /\ downloads[c].id = c /\ downloads[c].status = PENDING
              /\ downloads' = downloads
              /\ worker[c].pc = "idle" /\ worker'[c].pc = "conn_progress"
        /\ call'[c].pc \in {"idle", "validate", "can_write", "register", "spawn"}
           => /\ worker'[c].pc = "idle"
              /\ track'[c].outcome = None]_vars

C11_Witness ==
    \E c \in Calls :
        /\ call[c].pc = "returned" /\ call[c].ret = "Download"
        /\ current = c
        /\ worker[c].pc = "ydl_download"

\* C12: in every state of a record that start_download has returned to its
\* caller, completed_at is set exactly when the status is COMPLETED,
\* CANCELLED or ERROR.  (The statement of the claim; the code violates it.)
C12_CompletedAtIffTerminal ==
    \A j \in Calls :
        (call[j].pc = "returned" /\ call[j].ret = "Download")
        => (downloads[j].completed_at > 0
            <=> downloads[j].status \in {COMPLETED, CANCELLED, ERROR})

\* C13: completed_at of a job is written once: a completed_at that is set is
\* never written again by a later step.  (The statement of the claim; the
\* code violates it.)
C13_CompletedAtWrittenOnce ==
    [][\A j \in Calls :
        downloads[j].completed_at > 0
        => downloads'[j].completed_at = downloads[j].completed_at]_vars

\* C14: after any sequence of update_progress, mark_completed, mark_error and
\* mark_cancelled calls the progress of the record is in 0..100; right after
\* an update_progress it is 100 for a percent above 100, 0 for a percent
\* below 0, and the percent itself otherwise.
C14_ProgressClamped ==
    /\ downloads[1].progress \in 0 .. 100
    /\ track[1].method = "update_progress"
       => downloads[1].progress =
            (IF track[1].percent_arg > 100 THEN 100
             ELSE IF track[1].percent_arg < 0 THEN 0
             ELSE track[1].percent_arg)

C14_Witness ==
    /\ track[1].method = "update_progress" /\ track[1].percent_arg = 150
    /\ downloads[1].progress = 100
    /\ downloads[1].completed_at = 2

\* C15: whenever the status of a job is COMPLETED, its completed_at is set
\* and its progress is 100.  (The statement of the claim; the code violates
\* it.)
C15_CompletedIsStampedAndFull ==
    \A j \in Calls :
        downloads[j].status = COMPLETED
        => /\ downloads[j].completed_at > 0
           /\ downloads[j].progress = 100

\* C16: the value get_current_download has returned never shows a terminal
\* status without completed_at, and no step made after the call returned
\* changes it.  (The statement of the claim; the code violates it.)
C16_CurrentIsConsistentSnapshot ==
    [][/\ observer'.ref # NoJob
          => (downloads'[observer'.ref].status \in {COMPLETED, CANCELLED, ERROR}
              => downloads'[observer'.ref].completed_at > 0)
       /\ (observer.ref # NoJob /\ observer' = observer)
          => downloads'[observer.ref] = downloads[observer.ref]]_vars

\* C17: a start_download that finds the current job COMPLETED, CANCELLED or
\* ERROR passes the admission test with no sink call and nothing written;
\* after it, the call is refused only by the validator or for the folder,
\* and once its record exists the record replaces the terminal one in the
\* slot and is returned.
C17_StartAfterTerminalAccepted ==
    [][\A c \in Calls :
        /\ ( /\ call[c].pc = "idle" /\ call'[c].pc # "idle"
             /\ current # NoJob
             /\ downloads[current].status \in {COMPLETED, CANCELLED, ERROR} )
           => /\ call'[c].pc = "validate"
              /\ sunk' = sunk
              /\ current' = current /\ downloads' = downloads
        /\ (call[c].pc \in {"validate", "can_write"} /\ call'[c].pc = "returned")
           => sunk'[c].msg \in {MsgEmpty, MsgInvalid, MsgUnsupported, MsgPermission}
        /\ (call[c].pc = "register" /\ call'[c].pc # "register")
           => /\ call'[c].pc = "spawn"
              /\ current' = c /\ downloads'[c].status = PENDING
        /\ (call[c].pc = "spawn" /\ call'[c].pc # "spawn")
           => /\ call'[c].ret = "Download"
              /\ current' = current]_vars

C17_Witness ==
    \E b, c \in Calls :
        /\ b # c
        /\ downloads[b].status = CANCELLED /\ worker[b].pc = "finished"
        /\ call[c].pc = "returned" /\ call[c].ret = "Download"
        /\ current = c /\ downloads[c].status \in ActiveStatuses

\* C18: the current-job slot holds nothing until a start_download has been
\* accepted, and it changes only in the second locked block of an accepted
\* start_download, which puts that call's record in it: no step of a worker,
\* of cancel_download, of get_current_download or of a refused start changes
\* it, so a terminal record stays the current job.
C18_SlotChangesOnlyOnAcceptedStart ==
    [][/\ current # NoJob
          => /\ call[current].pc \in {"spawn", "returned"}
             /\ downloads[current].id = current
       /\ current' # current
          => \E c \in Calls :
                /\ call[c].pc = "register" /\ call'[c].pc = "spawn"
                /\ current' = c
       /\ ( \/ \E j \in Calls : worker'[j].pc # worker[j].pc
            \/ canceller' # canceller
            \/ observer' # observer
            \/ \E c \in Calls : call[c].pc # "returned" /\ ReturnedNone(c)' )
          => current' = current]_vars

C18_Witness ==
    \E j, c \in Calls :
        /\ current = j /\ worker[j].pc = "finished"
        /\ downloads[j].status \in TerminalStatuses
        /\ ReturnedNone(c)
        /\ canceller.n = 1 /\ observer.n = 1 /\ observer.ref = j

\* C19: in MainWindow's update queue the events of different calls do not
\* interleave: when an event of a job is put on the queue, it goes to the
\* end, no event of a later call has ever been put on it, and none is
\* waiting in it.
C19_NoInterleavingInQueue ==
    [][\A j \in Calls :
        sunk'[j] # sunk[j]
        => /\ Len(queue') = Len(queue) + 1
           /\ queue'[Len(queue')].job = j
           /\ \A i \in Calls : i > j => sunk[i] = NothingSunk
           /\ \A n \in 1 .. Len(queue) : queue[n].job <= j]_vars

C19_Witness ==
    \E i, j \in Calls :
        /\ i < j
        /\ track[i].outcome # None /\ sunk[i].complete + sunk[i].error = 1
        /\ track[j].outcome # None /\ sunk[j].complete + sunk[j].error = 1
        /\ seen[j].terminal = 1

\* C20: at most one worker thread of the service is inside _execute_download
\* at any time, the part after the record became terminal included.  (The
\* statement of the claim; the code violates it.)
C20_AtMostOneWorkerAlive ==
    Cardinality({j \in Calls : worker[j].pc \notin {"idle", "finished"}}) <= 1

\* C21: a job whose engine call returned a file ends COMPLETED with
\* on_complete called once and on_error never, also when the history store's
\* add fails.  (The statement of the claim; the code violates it.)
C21_HistoryFailureSwallowed ==
    \A j \in Calls :
        (track[j].outcome = "returned" /\ Finished(j))
        => /\ Status(j) = COMPLETED
           /\ sunk[j].complete = 1 /\ sunk[j].error = 0

\* C22: with a history store configured, exactly one history entry is
\* submitted for a job whose engine call returned a file, at a moment when
\* the record is COMPLETED with its output path and on_complete has not been
\* called; no entry is submitted for a job that ends CANCELLED or ERROR, nor
\* without a store.  (The statement of the claim; the code violates it.)
C22_HistoryEntryOnlyForCompleted ==
    \A j \in Calls :
        /\ worker[j].pc = "history"
           => /\ Status(j) = COMPLETED
              /\ downloads[j].output_path # NoPath
              /\ sunk[j].complete = 0
        /\ track[j].history_adds <= 1
        /\ ~history_store => track[j].history_adds = 0
        /\ Finished(j)
           => /\ (track[j].outcome = "returned" /\ history_store)
                 => track[j].history_adds = 1
              /\ Status(j) \in {CANCELLED, ERROR}
                 => track[j].history_adds = 0

\* C23: a step makes a job DOWNLOADING only while the service handles an
\* engine event whose phase is "downloading"; while it handles any other
\* event, such as the engine's "connecting" event with the title, a
\* CONNECTING job stays CONNECTING.  (The statement of the claim; the code
\* violates it.)
C23_DownloadingOnlyOnTransferEvent ==
    [][\A j \in Calls :
          /\ (downloads[j].status # DOWNLOADING /\ downloads'[j].status = DOWNLOADING)
             => worker[j].info.status = "downloading"
          /\ (worker[j].info.status = "connecting" /\ downloads[j].status = CONNECTING)
             => downloads'[j].status = CONNECTING]_vars

\* C24: among the non-terminal statuses a job never moves backwards: a
\* PROCESSING job does not become DOWNLOADING, CONNECTING or PENDING, a
\* DOWNLOADING job does not become CONNECTING or PENDING, and a CONNECTING
\* job does not become PENDING.  (The statement of the claim; the code
\* violates it.)
C24_ActiveStatusOnlyForward ==
    [][\A j \in Calls :
          /\ downloads[j].status = PROCESSING
             => downloads'[j].status \notin {DOWNLOADING, CONNECTING, PENDING}
          /\ downloads[j].status = DOWNLOADING
             => downloads'[j].status \notin {CONNECTING, PENDING}
          /\ downloads[j].status = CONNECTING
             => downloads'[j].status # PENDING]_vars

\* The worker positions before its first statement has completed, and those
\* inside the engine's download call (with the service's handling of the
\* engine's events).
NotYetRun == {"idle", "conn_progress"}
InEngine ==
    {"engine_enter", "extract", "pre_check", "ydl_download",
     "hp_progress", "hp_status", "hp_title", "hp_sink"}

\* C25: a registered record is PENDING with progress 0 until its worker
\* runs; the worker makes it CONNECTING with progress 0 and no title and
\* emits on_progress(0, CONNECTING, None) as the first event of the job, and
\* only then calls the engine; the engine is never running while the status
\* is PENDING.
C25_ConnectingBeforeEngine ==
    \A j \in Calls :
        /\ (downloads[j] # NoDownload /\ worker[j].pc \in NotYetRun)
           => /\ Status(j) = PENDING /\ downloads[j].progress = 0
              /\ sunk[j].last_k = -1
        /\ worker[j].pc = "conn_sink"
           => /\ Status(j) = CONNECTING /\ downloads[j].progress = 0
              /\ downloads[j].title = None
              /\ sunk[j] = NothingSunk
        /\ worker[j].pc = "engine_enter"
           => /\ Status(j) = CONNECTING /\ downloads[j].progress = 0
              /\ sunk[j] = [NothingSunk EXCEPT !.last_k = 0]
        /\ worker[j].pc \in InEngine
           => /\ Status(j) # PENDING
              /\ sunk[j].last_k >= 0 /\ ~sunk[j].out_of_order
C25_Witness ==
    \E j \in Calls :
        /\ worker[j].pc = "extract" /\ Status(j) = CONNECTING
        /\ sunk[j].last_k = 0

\* C26 (as the code has it): construction does not clamp.  A record that the
\* constructor returns has exactly the progress it was given, and for a
\* value above 100 or below 0 the constructor returns no record.
C26_ConstructionKeepsOrRefuses ==
    track[2].method = "init"
    => /\ downloads[2] # NoDownload
          => downloads[2].progress = track[2].percent_arg
       /\ (track[2].percent_arg > 100 \/ track[2].percent_arg < 0)
          => downloads[2] = NoDownload
C26_Witness ==
    /\ track[2].method = "init" /\ track[2].percent_arg = 150
    /\ downloads[2] = NoDownload
\* C26 as stated: construction with a progress above 100 gives a record with
\* progress 100, and with a progress below 0 a record with progress 0.
C26_ConstructionClamps ==
    track[2].method = "init"
    => /\ track[2].percent_arg > 100
          => downloads[2].status = PENDING /\ downloads[2].progress = 100
       /\ track[2].percent_arg < 0
          => downloads[2].status = PENDING /\ downloads[2].progress = 0

\* C27: constructing a Download with a progress above 100 or negative fails
\* with ValueError and yields no record.
C27_OutOfRangeConstructionRaises ==
    (track[2].method = "init" /\ track[2].percent_arg \notin 0 .. 100)
    => /\ track[2].failure.cls = "ValueError"
       /\ downloads[2] = NoDownload
C27_Witness ==
    /\ track[2].method = "init" /\ track[2].percent_arg = -1
    /\ track[2].failure = ValueError

\* C28: every result of URLValidator.validate is the one the order of the
\* tests gives: EMPTY_URL for an empty or whitespace-only input; otherwise
\* INVALID_FORMAT for a scheme other than http/https or an absent host;
\* otherwise UNSUPPORTED_SITE exactly when the registry answered and no entry
\* matched, and accepted when an entry matched or the registry was
\* unavailable or failed; an accepted result has empty code and message.
C28_ValidateOrder ==
    \A i \in DOMAIN validations :
        LET v == validations[i]
            r == v.result
            blank == v.url \in {"", "  "}
            malformed == \/ UrlScheme(Strip(v.url)) \notin {"http", "https"}
                         \/ UrlNetloc(Strip(v.url)) = ""
        IN  /\ blank => ~r.is_valid /\ r.error_code = "EMPTY_URL"
            /\ (~blank /\ malformed)
               => ~r.is_valid /\ r.error_code = "INVALID_FORMAT"
            /\ (~blank /\ ~malformed /\ v.answer = "none_suitable")
               => ~r.is_valid /\ r.error_code = "UNSUPPORTED_SITE"
            /\ (~blank /\ ~malformed /\ v.answer # "none_suitable") => r.is_valid
            /\ r.is_valid => r.error_code = "" /\ r.error_message = ""
            /\ ~r.is_valid => r.error_message # ""
C28_Witness ==
    \E i \in DOMAIN validations :
        /\ validations[i].url = "https://x.com/a" /\ validations[i].answer = "error"
        /\ validations[i].result = [is_valid |-> TRUE, error_message |-> "",
                                   error_code |-> ""]

\* C29: every step in which the worker of a job writes the job's record is a
\* locked block of the worker.  (The statement of the claim; the code
\* violates it.)
C29_WorkerWritesUnderLock ==
    [][\A j \in Calls :
          (worker'[j] # worker[j] /\ downloads'[j] # downloads[j])
          => worker[j].pc \in WorkerLockedBlocks]_vars

\* C30: no sink is called and the engine's cancel is not called in a step
\* that is a locked block of start_download, of the worker or of
\* cancel_download.  (The statement of the claim; the code violates it.)
C30_NoSinkUnderLock ==
    [][/\ \A c \in Calls :
             sunk'[c] # sunk[c]
             => ~ \/ (call'[c] # call[c] /\ call[c].pc \in StartLockedBlocks)
                  \/ (worker'[c] # worker[c] /\ worker[c].pc \in WorkerLockedBlocks)
       /\ cancel_event' # cancel_event
          => ~(canceller' # canceller /\ canceller.pc \in CancelLockedBlocks)]_vars

\* C31: when on_progress is called for an engine event, the percent it is
\* called with is the progress the record has after the update of that
\* event, and it is in 0..100.  (The statement of the claim; the code
\* violates it.)
C31_ForwardedPercentIsStored ==
    [][\A j \in Calls :
          (sunk'[j].last_k # sunk[j].last_k /\ sunk'[j].last_k >= 1)
          => /\ sunk'[j].percent = downloads'[j].progress
             /\ sunk'[j].percent \in 0 .. 100]_vars

\* The worker positions inside handle_progress.
InHandleProgress == {"hp_progress", "hp_status", "hp_title", "hp_sink"}

\* C32: once cancel_download has set the signal for a job, no further event
\* of the engine is handed to handle_progress for that job (none reaches the
\* record or on_progress), and the next call of the progress hook does not
\* pass: the engine's operation ends with the cancellation outcome.  (The
\* statement of the claim; the code violates it.)
C32_NoProgressAfterCancel ==
    [][\A j \in Calls :
          track[j].cancel_true
          => /\ ~(worker[j].pc \notin InHandleProgress /\ worker'[j].pc = "hp_progress")
             /\ worker[j].pc = "ydl_download" => worker'[j].hooks <= worker[j].hooks
             /\ (worker[j].pc = "ydl_download" /\ worker'[j].pc # "ydl_download")
                => track'[j].outcome = "cancelled"]_vars

\* C33: whatever the engine did (returned a path, unwound with cancellation
\* or raised another failure), a worker that has ended has left its job in a
\* terminal status with no exception pending, and every job whose engine call
\* has finished reaches a terminal status eventually.
C33_WorkerAlwaysEndsTerminal ==
    /\ [](\A j \in Calls :
             Finished(j) => /\ Status(j) \in TerminalStatuses
                            /\ track[j].outcome # None
                            /\ worker[j].exc = NoException)
    /\ \A j \in Calls :
          (track[j].outcome # None) ~> (Status(j) \in TerminalStatuses)
C33_Witness ==
    \E j \in Calls :
        /\ Finished(j) /\ track[j].outcome = "failed"
        /\ track[j].failure.cls = "ImportError"
        /\ Status(j) = ERROR

\* C34: a job ends CANCELLED only if a cancel_download for that very job
\* raised the signal: a signal raised for one job is never observed by the
\* run of another.  (The statement of the claim; the code violates it.)
C34_CancelHitsOnlyItsJob ==
    \A j \in Calls : Status(j) = CANCELLED => track[j].cancel_true

\* C35: in every call of a method of the record, update_progress with a
\* title stores that title, update_progress without a title (None or the
\* empty string) leaves the stored title, and mark_completed, mark_error and
\* mark_cancelled leave the stored title.
C35_TitleLastWriteWins ==
    [][track'[2] = track[2]
       => LET m == track'[1].method
              t == track'[1].title_arg
          IN  /\ (m = "update_progress" /\ t \notin {None, ""})
                 => downloads'[1].title = t
              /\ (m = "update_progress" /\ t \in {None, ""})
                 => downloads'[1].title = downloads[1].title
              /\ m \in {"mark_completed", "mark_error", "mark_cancelled"}
                 => downloads'[1].title = downloads[1].title]_vars
C35_Witness ==
    /\ track[1].method = "update_progress" /\ track[1].title_arg = ""
    /\ downloads[1].title = "B"
    /\ downloads[1].completed_at > 0

\* C36: a job record carries an error_message only while its status is
\* ERROR: no record that is non-terminal, COMPLETED or CANCELLED has one.
C36_ErrorMessageOnlyWithError ==
    \A j \in Calls : downloads[j].error_message # None => Status(j) = ERROR
C36_Witness ==
    \E j \in Calls :
        /\ downloads[j].error_message = DefaultDownloadUserMessage
        /\ Status(j) = ERROR /\ worker[j].pc = "error_stamp"

\* C37: once a record exists its id, url and format never change; its
\* output_path changes only from the placeholder and only after the engine
\* has returned a file; and a record that is CANCELLED or ERROR has the
\* placeholder as its output_path.  (The statement of the claim; the code
\* violates it.)
C37_IdentityAndPathFrame ==
    [][\A j \in Calls :
          /\ downloads[j] # NoDownload
             => /\ downloads'[j].id = downloads[j].id
                /\ downloads'[j].url = downloads[j].url
                /\ downloads'[j].format = downloads[j].format
                /\ downloads'[j].output_path # downloads[j].output_path
                   => /\ downloads[j].output_path = Placeholder
                      /\ track[j].outcome = "returned"
          /\ downloads'[j].status \in {CANCELLED, ERROR}
             => downloads'[j].output_path = Placeholder]_vars

\* C38: after any sequence of add and clear calls, whether or not their
\* saves succeed, get_entries returns at most 5 entries, most recent first,
\* and right after an add the entry of that add is the first.  (The
\* statement of the claim; the code violates it.)
C38_HistoryKeepsLastFive ==
    /\ Len(get_entries) <= 5
    /\ \A i \in 1 .. Len(get_entries) - 1 : get_entries[i] > get_entries[i + 1]
    /\ history.last = "add"
       => Len(get_entries) >= 1 /\ get_entries[1] = history.n

\* C39: in the main window, while the service's current job is non-terminal
\* the button is in its downloading state; the button leaves that state only
\* in a poll that applies a complete or error event, and every such poll
\* leaves it idle; and once a job's complete or error event (or the error
\* event of a rejected start) has been emitted, the window becomes idle
\* eventually.
C39_WindowFollowsJob ==
    /\ []((current # NoJob /\ is_active(downloads[current]))
          => window.is_downloading)
    /\ [][/\ (window.is_downloading /\ ~window'.is_downloading)
             => \E j \in Calls : seen'[j].terminal = seen[j].terminal + 1
          /\ \A j \in Calls :
                seen'[j].terminal # seen[j].terminal => ~window'.is_downloading]_vars
    /\ \A j \in Calls :
          (sunk[j].complete + sunk[j].error > seen[j].terminal)
          ~> ~window.is_downloading
C39_Witness ==
    \E i, j \in Calls :
        /\ ~window.is_downloading
        /\ sunk[i].error = 1 /\ seen[i].terminal = 1 /\ downloads[i] = NoDownload
        /\ Status(j) = CANCELLED /\ seen[j].terminal = 1

====
